---- MODULE Spec2Model ----
(***************************************************************************)
(* The structure materializer of src/admin.py and src/web.py:              *)
(* create_structure() makes the base directory, then the nested function   *)
(* create_files_and_dirs walks the nested mapping `structure` and issues   *)
(* one mkdir per mapping-valued entry and one open("w")/write per          *)
(* string-valued entry.                                                    *)
(*                                                                         *)
(* A path is the sequence of its components below the working directory    *)
(* (<<>> is the working directory).  The filesystem is a function from the *)
(* existing paths to nodes.  File contents are sequences of characters.    *)
(* Write permission is modelled on directories (it decides whether a new   *)
(* entry can be created in them); symbolic links, device errors and        *)
(* permissions on regular files are outside the model.  Names are single   *)
(* path components, as they are in both structure literals.                *)
(***************************************************************************)
EXTENDS Integers, Sequences, FiniteSets, TLC

\* ------------------------------------------------------------ bounds ----
\* number of entries that exist below the working directory before the run
MaxPre == 4
\* number of times the script is run in a row
MaxRuns == 2

\* ------------------------------------------------------- tree literal ----
hi == <<"h", "i">>
old == <<"o", "l", "d">>
empty == <<>>

\* a string-valued entry of the mapping:  name: "content"
File(name, content) ==
    [name |-> name, isdict |-> FALSE, content |-> content, items |-> <<>>]

\* a mapping-valued entry of the mapping:  name: {...}
Dict(name, items) ==
    [name |-> name, isdict |-> TRUE, content |-> empty, items |-> items]

\* The structure literals, in insertion order.  The first two are the shape
\* of the literals of the scripts cut down to a few entries (all contents
\* empty); the others are the trees the specification's example uses, with
\* non-empty contents and with a mapping before a string.
Structures ==
    { << File(".gitignore", empty),
         Dict("public", << File("favicon.ico", empty),
                           Dict("images", << File("admin-bg.jpg", empty) >>) >>) >>,
      << File("a.txt", hi), Dict("b", << File("c.txt", empty) >>) >>,
      << Dict("b", << File("c.txt", hi) >>),
         File("a.txt", hi), File("d.txt", empty) >> }

Scripts == {"admin", "web"}

\* Path("apps/admin") / Path("apps/web"), as path components
BaseDir(s) == IF s = "admin" THEN <<"apps", "admin">> ELSE <<"apps", "web">>

\* ---------------------------------------------------------- filesystem ----
DirNode(w) == [kind |-> "dir", content |-> empty, writable |-> w]
FileNode(c) == [kind |-> "file", content |-> c, writable |-> TRUE]

Parent(p) == SubSeq(p, 1, Len(p) - 1)

\* a mutant of Join: the entry is placed under the base directory whatever
\* the directory being walked
JoinUnderBase(parent_path, name) == Append(SubSeq(parent_path, 1, 2), name)

\* parent_path / name
Join(parent_path, name) == Append(parent_path, name)

IsDir(f, p) == p \in DOMAIN f /\ f[p].kind = "dir"
IsFile(f, p) == p \in DOMAIN f /\ f[p].kind = "file"
KindOf(f, p) == IF p \in DOMAIN f THEN f[p].kind ELSE "absent"

\* the error of resolving d as a directory: "ok", ENOTDIR or ENOENT
RECURSIVE DirErr(_, _)
DirErr(f, d) ==
    IF IsDir(f, d) THEN "ok"
    ELSE IF d \in DOMAIN f THEN "NotADirectoryError"
    ELSE IF DirErr(f, Parent(d)) = "ok" THEN "FileNotFoundError"
    ELSE DirErr(f, Parent(d))

\* os.mkdir(p): one directory, no parents
OsMkdir(f, p) ==
    IF p = <<>> THEN [fs |-> f, err |-> "FileExistsError"]
    ELSE IF DirErr(f, Parent(p)) # "ok"
        THEN [fs |-> f, err |-> DirErr(f, Parent(p))]
    ELSE IF p \in DOMAIN f THEN [fs |-> f, err |-> "FileExistsError"]
    ELSE IF ~f[Parent(p)].writable THEN [fs |-> f, err |-> "PermissionError"]
    ELSE [fs |-> (p :> DirNode(TRUE)) @@ f, err |-> "ok"]

\* Path.mkdir(parents=..., exist_ok=...)
RECURSIVE Mkdir(_, _, _, _)
Mkdir(f, p, parents, exist_ok) ==
    LET r == OsMkdir(f, p) IN
    IF r.err = "ok" THEN r
    ELSE IF r.err = "FileNotFoundError" THEN
        IF ~parents \/ p = <<>> THEN r
        ELSE LET r1 == Mkdir(f, Parent(p), TRUE, TRUE) IN
             IF r1.err # "ok" THEN r1 ELSE Mkdir(r1.fs, p, FALSE, exist_ok)
    ELSE IF ~exist_ok \/ ~IsDir(f, p) THEN r
    ELSE [fs |-> f, err |-> "ok"]

\* base_dir.mkdir(parents=True, exist_ok=True)
MkdirBase(f, p) == Mkdir(f, p, TRUE, TRUE)

\* a mutant of MkdirEntry: exist_ok is left at its default
MkdirEntryNoExistOk(f, p) == Mkdir(f, p, FALSE, FALSE)

\* a mutant of MkdirEntry: anything that exists at the path passes for the
\* directory (EEXIST is swallowed without the is_dir() check)
MkdirEntryAnyExists(f, p) ==
    LET r == OsMkdir(f, p) IN
    IF r.err = "FileExistsError" THEN [fs |-> f, err |-> "ok"] ELSE r

\* a mutant of MkdirEntry: a directory that exists is emptied first
MkdirEntryFresh(f, p) ==
    LET r == Mkdir(f, p, FALSE, TRUE)
        kept == {q \in DOMAIN r.fs :
                    ~(Len(q) > Len(p) /\ SubSeq(q, 1, Len(p)) = p)}
    IN IF r.err = "ok" THEN [fs |-> [q \in kept |-> r.fs[q]], err |-> "ok"]
       ELSE r

\* current_path.mkdir(exist_ok=True)
MkdirEntry(f, p) == Mkdir(f, p, FALSE, TRUE)

\* a mutant of OpenW: the file is opened without truncation (mode "r+"
\* where it exists)
OpenNoTrunc(f, p) ==
    IF DirErr(f, Parent(p)) # "ok"
        THEN [fs |-> f, err |-> DirErr(f, Parent(p))]
    ELSE IF IsDir(f, p) THEN [fs |-> f, err |-> "IsADirectoryError"]
    ELSE IF p \in DOMAIN f THEN [fs |-> f, err |-> "ok"]
    ELSE IF ~f[Parent(p)].writable THEN [fs |-> f, err |-> "PermissionError"]
    ELSE [fs |-> (p :> FileNode(empty)) @@ f, err |-> "ok"]

\* a mutant of OpenW: the file is opened for exclusive creation (mode "x")
OpenExclusive(f, p) ==
    IF DirErr(f, Parent(p)) # "ok"
        THEN [fs |-> f, err |-> DirErr(f, Parent(p))]
    ELSE IF p \in DOMAIN f THEN [fs |-> f, err |-> "FileExistsError"]
    ELSE IF ~f[Parent(p)].writable THEN [fs |-> f, err |-> "PermissionError"]
    ELSE [fs |-> (p :> FileNode(empty)) @@ f, err |-> "ok"]

\* a mutant of OpenW: whatever is at the path is replaced by an empty file
OpenReplacing(f, p) ==
    IF DirErr(f, Parent(p)) # "ok"
        THEN [fs |-> f, err |-> DirErr(f, Parent(p))]
    ELSE IF p \in DOMAIN f
        THEN [fs |-> [f EXCEPT ![p] = FileNode(empty)], err |-> "ok"]
    ELSE IF ~f[Parent(p)].writable THEN [fs |-> f, err |-> "PermissionError"]
    ELSE [fs |-> (p :> FileNode(empty)) @@ f, err |-> "ok"]

\* open(p, "w"): create or truncate
OpenW(f, p) ==
    IF DirErr(f, Parent(p)) # "ok"
        THEN [fs |-> f, err |-> DirErr(f, Parent(p))]
    ELSE IF IsDir(f, p) THEN [fs |-> f, err |-> "IsADirectoryError"]
    ELSE IF p \in DOMAIN f
        THEN [fs |-> [f EXCEPT ![p].content = empty], err |-> "ok"]
    ELSE IF ~f[Parent(p)].writable THEN [fs |-> f, err |-> "PermissionError"]
    ELSE [fs |-> (p :> FileNode(empty)) @@ f, err |-> "ok"]

\* f.write(content) on the file just opened, written from offset 0, and the
\* close at the end of the with block
WriteClose(f, p, content) ==
    [f EXCEPT ![p].content =
        content \o SubSeq(@, Len(content) + 1, Len(@))]

\* str(base_dir): the components joined by "/"
RECURSIVE PathStr(_)
PathStr(p) ==
    IF Len(p) = 0 THEN <<".">>
    ELSE IF Len(p) = 1 THEN <<p[1]>>
    ELSE PathStr(Parent(p)) \o <<"/", p[Len(p)]>>

\* a mutant of Message: the line names the working directory
MessageNoBase(base_dir) ==
    <<"Directory structure created successfully at ">> \o PathStr(<<>>)

\* f"Directory structure created successfully at {base_dir}"
Message(base_dir) ==
    <<"Directory structure created successfully at ">> \o PathStr(base_dir)

\* ------------------------------------------- filesystems before the run ----
\* what an entry that exists before the run can be
PreNodes == {DirNode(TRUE), DirNode(FALSE), FileNode(old), FileNode(hi)}

\* the paths the tree names under P, at every depth
RECURSIVE TreePaths(_, _)
TreePaths(P, items) ==
    UNION { {Append(P, items[i].name)} \cup
            (IF items[i].isdict
             THEN TreePaths(Append(P, items[i].name), items[i].items)
             ELSE {})
          : i \in 1..Len(items) }

\* the paths of the mapping-valued entries under P, at every depth
RECURSIVE TreeDirs(_, _)
TreeDirs(P, items) ==
    UNION { IF items[i].isdict
            THEN {Append(P, items[i].name)} \cup
                 TreeDirs(Append(P, items[i].name), items[i].items)
            ELSE {}
          : i \in 1..Len(items) }

\* where an entry can exist before the run: the base path and its parent,
\* the paths of the tree, and a path the tree does not name in the base
\* directory and under each path of the tree
PrePaths(base, items) ==
    {Parent(base), base} \cup TreePaths(base, items)
    \cup {Append(d, "keep.txt") : d \in {base} \cup TreePaths(base, items)}

\* the filesystems with at most k entries at paths of cands, every entry in
\* an existing directory
RECURSIVE PreFS(_, _)
PreFS(cands, k) ==
    IF k = 0 THEN {(<<>> :> DirNode(w)) : w \in BOOLEAN}
    ELSE LET prev == PreFS(cands, k - 1) IN
         prev \cup
         UNION { { (p :> n) @@ f :
                   p \in {q \in cands : q \notin DOMAIN f /\ IsDir(f, Parent(q))},
                   n \in PreNodes }
               : f \in prev }

\* --------------------------------------------------------------- state ----
VARIABLES
    script,     \* which script runs: "admin" or "web"
    structure,  \* the structure literal of create_structure
    fs,         \* the filesystem below the working directory
    pc,         \* "start", "walk", "write", "print", "done" or "failed"
    stack,      \* the frames of create_files_and_dirs, innermost last
    out,        \* the lines printed to standard output by this run
    err,        \* the exception that ended the run, "ok" if none
    run,        \* the number of this run
    ops,        \* the operations issued on entries by this run, in order
    fs0,        \* the filesystem when this run started
    fsPre,      \* the filesystem just before the last operation issued
    prev        \* how the previous runs ended, oldest first

vars == <<script, structure, fs, pc, stack, out, err, run, ops, fs0, fsPre, prev>>

Frame(path, items) == [path |-> path, items |-> items, idx |-> 1]

Top == stack[Len(stack)]
\* a mutant of Item: the mapping is walked in reverse insertion order
ItemReversed == Top.items[Len(Top.items) + 1 - Top.idx]

\* the entry the innermost loop is at (items.items(), in insertion order)
Item == Top.items[Top.idx]
\* its path
current_path == Join(Top.path, Item.name)

\* the record of an operation issued on the entry at path p
Op(e, p, f, r) ==
    [path |-> p, isdict |-> e.isdict, content |-> e.content,
     n |-> Len(e.items), pre |-> KindOf(f, p),
     parentdir |-> IsDir(f, Parent(p)), err |-> r.err]

\* a mutant of Uncaught: the run undoes what it did before it fails
RolledBack(f, f0) == f0

\* no try/except around an operation: the exception leaves the function
\* with the filesystem f as it is (f0 is the filesystem the run started on)
Uncaught(f, f0) == f

\* the loop of the innermost frame moves to its next entry
Advance(st) == [st EXCEPT ![Len(st)].idx = @ + 1]

Init ==
    /\ script \in Scripts
    /\ structure \in Structures
    /\ fs \in PreFS(PrePaths(BaseDir(script), structure), MaxPre)
    /\ pc = "start"
    /\ stack = <<>>
    /\ out = <<>>
    /\ err = "ok"
    /\ run = 1
    /\ ops = <<>>
    /\ fs0 = fs
    /\ fsPre = fs
    /\ prev = <<>>

\* create_structure: base_dir.mkdir(parents=True, exist_ok=True), then the
\* call create_files_and_dirs(base_dir, structure)
Start ==
    /\ pc = "start"
    /\ LET r == MkdirBase(fs, BaseDir(script)) IN
       /\ fs' = IF r.err = "ok" THEN r.fs ELSE Uncaught(r.fs, fs0)
       /\ fsPre' = fs
       /\ err' = r.err
       /\ IF r.err = "ok"
          THEN pc' = "walk" /\ stack' = <<Frame(BaseDir(script), structure)>>
          ELSE pc' = "failed" /\ stack' = <<>>
    /\ UNCHANGED <<script, structure, out, run, ops, fs0, prev>>

\* a mapping-valued entry: current_path.mkdir(exist_ok=True), then the
\* recursive call
MakeDir ==
    /\ pc = "walk"
    /\ Top.idx <= Len(Top.items)
    /\ Item.isdict
    /\ LET r == MkdirEntry(fs, current_path) IN
       /\ fs' = IF r.err = "ok" THEN r.fs ELSE Uncaught(r.fs, fs0)
       /\ fsPre' = fs
       /\ err' = r.err
       /\ ops' = Append(ops, Op(Item, current_path, fs, r))
       /\ IF r.err = "ok"
          THEN pc' = "walk" /\ stack' = Append(stack, Frame(current_path, Item.items))
          ELSE pc' = "failed" /\ stack' = <<>>
    /\ UNCHANGED <<script, structure, out, run, fs0, prev>>

\* a string-valued entry: open(current_path, "w")
OpenFile ==
    /\ pc = "walk"
    /\ Top.idx <= Len(Top.items)
    /\ ~Item.isdict
    /\ LET r == OpenW(fs, current_path) IN
       /\ fs' = IF r.err = "ok" THEN r.fs ELSE Uncaught(r.fs, fs0)
       /\ fsPre' = fs
       /\ err' = r.err
       /\ ops' = Append(ops, Op(Item, current_path, fs, r))
       /\ IF r.err = "ok"
          THEN pc' = "write" /\ stack' = stack
          ELSE pc' = "failed" /\ stack' = <<>>
    /\ UNCHANGED <<script, structure, out, run, fs0, prev>>

\* f.write(content) and the end of the with block; the loop goes on
WriteFile ==
    /\ pc = "write"
    /\ fs' = WriteClose(fs, current_path, Item.content)
    /\ stack' = Advance(stack)
    /\ pc' = "walk"
    /\ UNCHANGED <<script, structure, out, err, run, ops, fs0, fsPre, prev>>

\* the loop of the innermost frame is exhausted: the call returns, to the
\* loop of its caller or to create_structure
Return ==
    /\ pc = "walk"
    /\ Top.idx > Len(Top.items)
    /\ IF Len(stack) = 1
       THEN pc' = "print" /\ stack' = <<>>
       ELSE pc' = "walk" /\ stack' = Advance(SubSeq(stack, 1, Len(stack) - 1))
    /\ UNCHANGED <<script, structure, fs, out, err, run, ops, fs0, fsPre, prev>>

\* print(f"Directory structure created successfully at {base_dir}")
PrintDone ==
    /\ pc = "print"
    /\ out' = Append(out, Message(BaseDir(script)))
    /\ pc' = "done"
    /\ UNCHANGED <<script, structure, fs, stack, err, run, ops, fs0, fsPre, prev>>

\* the script is run again (if __name__ == "__main__": create_structure())
\* on the filesystem the run before left
RunAgain ==
    /\ pc \in {"done", "failed"}
    /\ run < MaxRuns
    /\ run' = run + 1
    /\ prev' = Append(prev, [ok |-> pc = "done", fs |-> fs])
    /\ pc' = "start"
    /\ out' = <<>>
    /\ err' = "ok"
    /\ ops' = <<>>
    /\ fs0' = fs
    /\ fsPre' = fs
    /\ UNCHANGED <<script, structure, fs, stack>>

Next ==
    \/ Start
    \/ MakeDir
    \/ OpenFile
    \/ WriteFile
    \/ Return
    \/ PrintDone
    \/ RunAgain

Spec == Init /\ [][Next]_vars

\* ------------------------------------------------------------- claims ----
base_dir == BaseDir(script)

\* the entries of the tree under P in depth-first order, each mapping's
\* entries in insertion order, a mapping before its own entries
RECURSIVE Preorder(_, _)
Preorder(P, items) ==
    IF Len(items) = 0 THEN <<>>
    ELSE LET e == Head(items)
             p == Append(P, e.name)
         IN <<[path |-> p, isdict |-> e.isdict, content |-> e.content]>>
            \o (IF e.isdict THEN Preorder(p, e.items) ELSE <<>>)
            \o Preorder(P, Tail(items))

\* the operations issued so far, as entries
Issued == [i \in 1..Len(ops) |->
            [path |-> ops[i].path, isdict |-> ops[i].isdict,
             content |-> ops[i].content]]

IsPrefix(s, t) == Len(s) <= Len(t) /\ s = SubSeq(t, 1, Len(s))

\* every entry of the tree is there under P: a directory for a mapping, a
\* file with exactly the given contents for a string
RECURSIVE Materialized(_, _, _)
Materialized(f, P, items) ==
    \A i \in 1..Len(items) :
        LET e == items[i]
            p == Append(P, e.name)
        IN IF e.isdict
           THEN IsDir(f, p) /\ Materialized(f, p, e.items)
           ELSE IsFile(f, p) /\ f[p].content = e.content

\* C1: once create_files_and_dirs(base_dir, structure) has returned, every
\* mapping-valued key of the tree, at every depth, is a directory at its
\* path under the base, and every string-valued key is a regular file there
\* whose contents are exactly the string.
C1_TreeMaterialized ==
    pc \in {"print", "done"} => Materialized(fs, base_dir, structure)

\* a run on a filesystem without the base directory's parent returned, and
\* the tree has a file with contents and a nested file
C1_Witness ==
    /\ pc = "done"
    /\ run = 1
    /\ <<"apps">> \notin DOMAIN fs0
    /\ \E i \in 1..Len(ops) : ops[i].content = hi
    /\ \E i \in 1..Len(ops) : Len(ops[i].path) > 3

\* C2: a run that follows a successful run on the same base and tree does
\* not fail, has a next step until it is done, and ends with the filesystem
\* exactly as the run before left it (same directories, same files, same
\* contents).
C2_Idempotent ==
    (run >= 2 /\ prev[run - 1].ok) =>
        /\ pc # "failed"
        /\ pc # "done" =>
            ENABLED (Start \/ MakeDir \/ OpenFile \/ WriteFile \/ Return \/ PrintDone)
        /\ pc = "done" => fs = prev[run - 1].fs

\* the second run ended after a first run that created files and rewrote
\* one with contents
C2_Witness ==
    /\ run = 2
    /\ pc = "done"
    /\ prev[1].ok
    /\ \E i \in 1..Len(ops) : ops[i].content = hi /\ ops[i].pre = "file"
    /\ \E i \in 1..Len(ops) : ops[i].isdict /\ ops[i].pre = "dir"

\* C3: every entry that existed when the run started and whose path the
\* tree does not name is there with the same kind and contents in every
\* state of the run, whether the run succeeds or fails.
C3_UnrelatedKept ==
    \A p \in DOMAIN fs0 :
        p \notin TreePaths(base_dir, structure) =>
            p \in DOMAIN fs /\ fs[p] = fs0[p]

\* a run has walked into a directory that held a file the tree does not
\* name, and has written a file of the tree next to it
C3_Witness ==
    /\ pc \in {"done", "failed"}
    /\ run = 1
    /\ \E i \in 1..Len(ops) :
        /\ ops[i].isdict
        /\ ops[i].pre = "dir"
        /\ IsFile(fs0, Append(ops[i].path, "keep.txt"))
        /\ \E j \in 1..Len(ops) :
            /\ j > i
            /\ Parent(ops[j].path) = ops[i].path
            /\ ops[j].err = "ok"

\* C4: a string-valued entry whose path held a regular file: the open does
\* not fail, and once written the file holds exactly the given string,
\* whatever it held before.
C4_Overwritten ==
    \A i \in 1..Len(ops) :
        (~ops[i].isdict /\ ops[i].pre = "file") =>
            /\ ops[i].err = "ok"
            /\ (i < Len(ops) \/ pc # "write") =>
                IsFile(fs, ops[i].path) /\ fs[ops[i].path].content = ops[i].content

\* a file that held "old" was given the empty string, and one that held
\* "old" was given a shorter non-empty string
C4_Witness ==
    /\ pc = "done"
    /\ run = 1
    /\ \E i \in 1..Len(ops) :
        /\ IsFile(fs0, ops[i].path)
        /\ fs0[ops[i].path].content = old
        /\ ops[i].content = empty
        /\ fs[ops[i].path].content = empty
    /\ \E i \in 1..Len(ops) :
        /\ IsFile(fs0, ops[i].path)
        /\ fs0[ops[i].path].content = old
        /\ ops[i].content = hi
        /\ fs[ops[i].path].content = hi

\* the base directory cannot be made on f: a component of its path is a
\* regular file, or the first missing component is in a directory that is
\* not writable
BaseBlocked(f, b) ==
    \E k \in 1..Len(b) :
        LET q == SubSeq(b, 1, k) IN
        \/ IsFile(f, q)
        \/ q \notin DOMAIN f /\ IsDir(f, Parent(q)) /\ ~f[Parent(q)].writable

\* C5: when the base path cannot be created, and when the path of a
\* mapping-valued entry holds a regular file, the run fails there with an
\* error: nothing is issued after it, and no completion message is printed.
C5_CollisionFails ==
    /\ (pc # "start" /\ BaseBlocked(fs0, base_dir)) =>
        pc = "failed" /\ err # "ok" /\ ops = <<>> /\ out = <<>>
    /\ \A i \in 1..Len(ops) :
        (ops[i].isdict /\ ops[i].pre = "file") =>
            /\ ops[i].err # "ok"
            /\ i = Len(ops)
            /\ pc = "failed"
            /\ err = ops[i].err
            /\ out = <<>>

\* the run failed at a mapping-valued entry whose path holds a regular file
C5_Witness ==
    /\ pc = "failed"
    /\ run = 1
    /\ Len(ops) > 0
    /\ ops[Len(ops)].isdict
    /\ ops[Len(ops)].pre = "file"
    /\ err = "FileExistsError"
    /\ IsFile(fs, ops[Len(ops)].path)

\* C6: when the operation of the k-th entry in traversal order fails, what
\* entries 1..k-1 produced is there with the contents written, the failed
\* operation changed nothing, and the paths of the entries after the k-th
\* are as they were when the run started.
C6_NoRollback ==
    (pc = "failed" /\ Len(ops) > 0) =>
        LET all == Preorder(base_dir, structure)
            k == Len(ops)
        IN /\ IsPrefix(Issued, all)
           /\ ops[k].err # "ok"
           /\ fs = fsPre
           /\ \A i \in 1..(k - 1) :
                /\ ops[i].err = "ok"
                /\ IF ops[i].isdict THEN IsDir(fs, ops[i].path)
                   ELSE /\ IsFile(fs, ops[i].path)
                        /\ fs[ops[i].path].content = ops[i].content
           /\ \A j \in (k + 1)..Len(all) :
                /\ KindOf(fs, all[j].path) = KindOf(fs0, all[j].path)
                /\ all[j].path \in DOMAIN fs => fs[all[j].path] = fs0[all[j].path]

\* the run failed after it had made a directory and written a file with
\* contents, and with entries of the tree still to come
C6_Witness ==
    /\ pc = "failed"
    /\ run = 1
    /\ Len(ops) > 2
    /\ Len(ops) < Len(Preorder(base_dir, structure))
    /\ \E i \in 1..(Len(ops) - 1) : ops[i].isdict /\ ops[i].pre = "absent"
    /\ \E i \in 1..(Len(ops) - 1) :
        ~ops[i].isdict /\ ops[i].pre = "absent" /\ ops[i].content = hi

\* C7: a run prints at most one line; the line is the completion message
\* naming the base path of the script, and it is there only when the run
\* is done, every entry of the tree having been processed without error; a
\* run in which an operation failed has printed nothing.
C7_MessageOnce ==
    /\ Len(out) <= 1
    /\ out # <<>> =>
        /\ pc = "done"
        /\ out[1] = <<"Directory structure created successfully at ", "apps", "/",
                      (IF script = "admin" THEN "admin" ELSE "web")>>
        /\ Issued = Preorder(base_dir, structure)
        /\ \A i \in 1..Len(ops) : ops[i].err = "ok"
    /\ (pc = "failed" \/ err # "ok") => out = <<>>

\* the web script has printed its line
C7_Witness ==
    /\ pc = "done"
    /\ script = "web"
    /\ Len(out) = 1
    /\ Len(ops) > 3

\* C8: a mapping-valued entry whose directory is already there raises no
\* error; when its mkdir succeeds the directory exists at parent/name with
\* every directory above it (the parents of the base path are made with the
\* base directory), and the walk is in that directory, at its first entry.
C8_DirEnsured ==
    /\ (pc \notin {"start", "failed"}) =>
        \A k \in 0..Len(base_dir) : IsDir(fs, SubSeq(base_dir, 1, k))
    /\ (pc = "failed" /\ ops = <<>>) => BaseBlocked(fs0, base_dir)
    /\ \A i \in 1..Len(ops) :
        ops[i].isdict =>
            /\ ops[i].pre = "dir" => ops[i].err = "ok"
            /\ ops[i].err = "ok" =>
                \A k \in 0..Len(ops[i].path) : IsDir(fs, SubSeq(ops[i].path, 1, k))
            /\ (i = Len(ops) /\ ops[i].err = "ok" /\ ops[i].n > 0) =>
                /\ pc = "walk"
                /\ Top.path = ops[i].path
                /\ Top.idx = 1
                /\ Len(Top.items) = ops[i].n

\* the walk has just entered a new directory made inside one that was
\* already there
C8_Witness ==
    /\ pc = "walk"
    /\ run = 1
    /\ Len(ops) > 1
    /\ ops[Len(ops)].isdict
    /\ ops[Len(ops)].pre = "absent"
    /\ ops[Len(ops)].err = "ok"
    /\ Top.path = ops[Len(ops)].path
    /\ \E i \in 1..(Len(ops) - 1) :
        ops[i].isdict /\ ops[i].pre = "dir" /\ ops[i].err = "ok"

\* C9: the operations are issued in depth-first order, each mapping in
\* insertion order, a directory before its entries and all of them before
\* its next sibling; the parent of every path is a directory when the
\* operation on that path is issued.
C9_DepthFirst ==
    /\ IsPrefix(Issued, Preorder(base_dir, structure))
    /\ \A i \in 1..Len(ops) : ops[i].parentdir
    /\ pc \in {"walk", "write"} => IsDir(fs, Top.path)

\* the whole tree was walked: a directory first, its file next, and its
\* sibling after them
C9_Witness ==
    /\ pc = "done"
    /\ run = 1
    /\ Len(ops) = 4
    /\ ops[1].isdict
    /\ Parent(ops[2].path) = ops[1].path
    /\ Parent(ops[3].path) = Parent(ops[1].path)
    /\ ops[2].pre = "absent"

\* C10: a string-valued entry whose path holds a directory: the run fails
\* at that entry, the filesystem is left as it was before the open (the
\* directory and all it holds), and no completion message is printed.
C10_FileOnDirectory ==
    \A i \in 1..Len(ops) :
        (~ops[i].isdict /\ ops[i].pre = "dir") =>
            /\ ops[i].err # "ok"
            /\ i = Len(ops)
            /\ pc = "failed"
            /\ fs = fsPre
            /\ IsDir(fs, ops[i].path)
            /\ out = <<>>

\* the run failed at a string-valued entry whose path holds a directory
\* with a file in it
C10_Witness ==
    /\ pc = "failed"
    /\ run = 1
    /\ Len(ops) > 0
    /\ ~ops[Len(ops)].isdict
    /\ ops[Len(ops)].pre = "dir"
    /\ err = "IsADirectoryError"
    /\ IsFile(fs, Append(ops[Len(ops)].path, "keep.txt"))
    /\ fs = fs0 \/ Len(ops) > 1

====
